---- MODULE Spec2Model ----
\* Model of the reCAPTCHA v2 audio solver (src/src/recaptcha_v2.py):
\* RecaptchaV2Solver.solve / _solve / _solve_audio / _transcribe / _get_token.
EXTENDS Integers, Sequences, FiniteSets, TLC

\* ---------------------------------------------------------------------
\* Bounds of the model
\* ---------------------------------------------------------------------
\* largest max_retries argument explored
MaxRetries == 3
\* longest raw transcript explored by the normalisation specification
MaxLen == 3
\* most matches of one category's patterns in the page content
MaxMatches == 2
\* most (type, key) pairs collected from network requests
MaxNetworkKeys == 3

\* ---------------------------------------------------------------------
\* Python values
\* ---------------------------------------------------------------------
\* a dict key that is not present
Absent == "<absent>"
\* the Python value None
None == "<None>"
NonNull(v) == v # Absent /\ v # None

\* ---------------------------------------------------------------------
\* Transcript text: a string is a sequence of characters.  The characters
\* are representatives of the classes the clean-up code distinguishes:
\*   "i"      lowercase letter            isalnum, lower() = itself
\*   "I"      uppercase letter            isalnum, lower() = "i"
\*   "7"      digit                       isalnum
\*   " "      space                       isspace
\*   "TAB"    another whitespace char     isspace
\*   "!"      punctuation                 neither
\*   "U0130"  LATIN CAPITAL I WITH DOT    isalnum, lower() = "i" + U+0307
\*   "U0307"  COMBINING DOT ABOVE         neither isalnum nor isspace
\* ---------------------------------------------------------------------
Chars == {"i", "I", "7", " ", "TAB", "!", "U0130", "U0307"}

IsSpace(c) == c \in {" ", "TAB"}
IsAlnum(c) == c \in {"i", "I", "7", "U0130"}

\* str.lower() of one character (a sequence: U+0130 lowers to two)
LowerChar(c) ==
  CASE c = "I" -> <<"i">>
    [] c = "U0130" -> <<"i", "U0307">>
    [] OTHER -> <<c>>

RECURSIVE Lower(_)
Lower(s) == IF s = <<>> THEN <<>> ELSE LowerChar(Head(s)) \o Lower(Tail(s))

RECURSIVE LStrip(_)
LStrip(s) == IF s # <<>> /\ IsSpace(Head(s)) THEN LStrip(Tail(s)) ELSE s

RECURSIVE RStrip(_)
RStrip(s) ==
  IF s # <<>> /\ IsSpace(s[Len(s)]) THEN RStrip(SubSeq(s, 1, Len(s) - 1)) ELSE s

\* text.strip()
Strip(s) == RStrip(LStrip(s))

KeepChar(c) == IsAlnum(c) \/ IsSpace(c)

\* "".join(c for c in text if c.isalnum() or c.isspace())
FilterAlnumSpace(s) == SelectSeq(s, KeepChar)

\* text.split(): the maximal runs of non-whitespace characters
RECURSIVE SplitWords(_, _)
SplitWords(s, cur) ==
  IF s = <<>> THEN (IF cur = <<>> THEN <<>> ELSE <<cur>>)
  ELSE IF IsSpace(Head(s))
       THEN (IF cur = <<>> THEN <<>> ELSE <<cur>>) \o SplitWords(Tail(s), <<>>)
       ELSE SplitWords(Tail(s), Append(cur, Head(s)))

Split(s) == SplitWords(s, <<>>)

\* " ".join(parts)
RECURSIVE JoinSpace(_)
JoinSpace(parts) ==
  IF parts = <<>> THEN <<>>
  ELSE IF Len(parts) = 1 THEN Head(parts)
  ELSE Head(parts) \o <<" ">> \o JoinSpace(Tail(parts))

\* the clean-up of _transcribe, in the order the code applies it
Normalize(s) == Lower(JoinSpace(Split(FilterAlnumSpace(Strip(s)))))

\* all strings of length at most n
RECURSIVE Strings(_)
Strings(n) ==
  IF n = 0 THEN {<<>>}
  ELSE Strings(n - 1) \cup {Append(s, c) : s \in Strings(n - 1), c \in Chars}


\* ---------------------------------------------------------------------
\* Values observed from the browser and the network
\* ---------------------------------------------------------------------
\* value of the hidden g-recaptcha-response field when it can be read
TokenValues == {"03AGdBq2-token", ""}
\* text_content() of the rate-limit message node
ErrorTexts == {None, "", "Try again later"}
\* href attribute of the download link
Hrefs == {None, "", "https://audio.mp3"}
\* outcome of a visibility poll: visible, not visible, or the call raises
Polls == {"visible", "hidden", "raises"}
\* segment texts emitted by the speech model for one audio file
InferenceOutputs ==
  { <<>>,
    << <<" ">> >>,
    << <<"!">>, <<"!">> >>,
    << <<"I", "7">> >>,
    << <<" ", "i">>, <<"7", "!">> >> }
\* max_retries arguments explored (range() of a negative number is empty)
RetryArgs == (0 - 1) .. MaxRetries

\* text before _transcribe has returned
NoText == <<"<unset>">>
\* lines 76-83 and 163-170 of find_sitekey.py: the dict with empty lists
NoKeys == [v2 |-> <<>>, v3 |-> <<>>, enterprise |-> <<>>, hcaptcha |-> <<>>]
NoResult == [success |-> FALSE, token |-> "<no result>", error |-> "<no result>"]

\* the dicts the code builds; a key the dict lacks is Absent
Failure(msg) == [success |-> FALSE, token |-> Absent, error |-> msg]
\* line 138
RateLimitedResult(error_text) == Failure("rate limited: " \o error_text)
\* line 147
NoAudioUrlResult == Failure("couldn't find audio url")
\* line 154
TranscriptionFailedResult == Failure("transcription failed")
\* line 177
VerificationFailedResult == Failure("verification failed")
\* line 118
MaxRetriesResult == Failure("max retries exceeded")
\* lines 222-225
TokenResult(token) == [success |-> TRUE, token |-> token, error |-> Absent]
\* variant: the except branch of _get_token reports an error next to success
TokenUnreadResult_withError == [success |-> TRUE, token |-> None, error |-> "token not found"]
\* variant: an unreadable token is reported as a failure
TokenUnreadResult_failure == [success |-> FALSE, token |-> Absent, error |-> "token not found"]
\* line 227
TokenUnreadResult == [success |-> TRUE, token |-> None, error |-> Absent]

\* ---------------------------------------------------------------------
\* State
\* ---------------------------------------------------------------------
VARIABLES
  pc,              \* position of the solve call
  max_retries,     \* argument of solve
  attempt,         \* iterations of the retry loop started so far
  playwrightUp,    \* inside the `with sync_playwright()` block
  browserOpen,     \* a launched browser is still running
  closeCalls,      \* calls of browser.close()
  enteredTry,      \* the try block of solve was entered
  result,          \* dict returned by solve
  raisedAt,        \* step whose exception left solve
  freeSeen,        \* the checked state was seen by the free-pass check
  checkedSeen,     \* the checked state was seen after a submission
  solveAudioCalls, \* invocations of _solve_audio
  getTokenCalls,   \* invocations of _get_token
  tokenResult,     \* dict returned by the last _get_token
  evalRaised,      \* page.evaluate raised in the last _get_token
  delays,          \* inter-attempt sleeps taken (line 116)
  outcomes,        \* outcome of every finished attempt, in order
  steps,           \* steps performed by the current attempt, in order
  rateVisible,     \* the rate-limit node was visible in the current attempt
  rateText,        \* what text_content() of that node gave in this attempt
  text,            \* transcript returned by _transcribe in this attempt
  trFault,         \* step of _transcribe that raised in this attempt
  filled,          \* text put in the answer box in this attempt
  attemptResult,   \* dict returned by _solve_audio
  failedStep,      \* step that raised inside the current attempt
  tempFiles,       \* temporary audio files that exist on disk
  nIn, nOut, nOut2, npc,  \* normalisation specification
  kpc,             \* position of find_browser / find_static
  network_keys,    \* (type, key) pairs collected by on_request
  results          \* the dict of sitekey lists

solveVars == <<pc, max_retries, attempt, playwrightUp, browserOpen, closeCalls,
               enteredTry, result, raisedAt, freeSeen, checkedSeen,
               solveAudioCalls, getTokenCalls, tokenResult, evalRaised, delays,
               outcomes, steps, rateVisible, rateText, text, trFault, filled, attemptResult,
               failedStep, tempFiles>>
normVars == <<nIn, nOut, nOut2, npc>>
keyVars == <<kpc, network_keys, results>>
pureVars == <<normVars, keyVars>>
vars == <<solveVars, normVars, keyVars>>

browserVars == <<playwrightUp, browserOpen, closeCalls, enteredTry, result, raisedAt>>
countVars == <<attempt, solveAudioCalls, delays, outcomes>>
tokenVars == <<getTokenCalls, tokenResult, evalRaised>>
localVars == <<steps, rateVisible, rateText, text, trFault, filled, attemptResult, failedStep>>

InitSolveVars ==
  /\ attempt = 0
  /\ playwrightUp = FALSE
  /\ browserOpen = FALSE
  /\ closeCalls = 0
  /\ enteredTry = FALSE
  /\ result = NoResult
  /\ raisedAt = "none"
  /\ freeSeen = FALSE
  /\ checkedSeen = FALSE
  /\ solveAudioCalls = 0
  /\ getTokenCalls = 0
  /\ tokenResult = NoResult
  /\ evalRaised = FALSE
  /\ delays = 0
  /\ outcomes = <<>>
  /\ steps = <<>>
  /\ rateVisible = FALSE
  /\ rateText = "unread"
  /\ text = NoText
  /\ trFault = "none"
  /\ filled = NoText
  /\ attemptResult = NoResult
  /\ failedStep = "none"
  /\ tempFiles = 0

InitNormIdle ==
  /\ nIn = <<>>
  /\ nOut = <<>>
  /\ nOut2 = <<>>
  /\ npc = "off"

InitKeysIdle ==
  /\ kpc = "off"
  /\ network_keys = <<>>
  /\ results = NoKeys

\* a call solve(url, max_retries) is about to run its body
Init ==
  /\ pc = "start"
  /\ max_retries \in RetryArgs
  /\ InitSolveVars
  /\ InitNormIdle
  /\ InitKeysIdle


\* ---------------------------------------------------------------------
\* Decisions taken by the code
\* ---------------------------------------------------------------------
\* Python truthiness of an optional string (`if error_text:`, `if not audio_url:`)
Truthy(v) == v # None /\ v # ""
\* variant: the free-pass branch is never taken
FreePassTaken_never(poll) == FALSE
\* line 98: `if checkmark.is_visible(timeout=2000)` inside try/except-pass
FreePassTaken(poll) == poll = "visible"
\* variant: one iteration too many
RangeHasNext_offByOne(done, n) == done <= n
\* variant: a loop that tests its bound after the first iteration
RangeHasNext_atLeastOnce(done, n) == done = 0 \/ done < n
\* line 105: `for attempt in range(max_retries)` has another iteration
RangeHasNext(done, n) == done < n
\* variant: every result of an attempt is returned
ReturnsEarly_always(res) == TRUE
\* variant: a successful result does not end the loop
ReturnsEarly_never(res) == FALSE
\* line 110: `if result["success"]: return result`
ReturnsEarly(res) == res.success
\* variant: the empty-transcript test is missing
IsEmptyText_never(t) == FALSE
\* line 153: `if not text`
IsEmptyText(t) == t = <<>>
\* variant: a visible message node is enough, whatever its text
RateLimitedSeen_anyText(poll, error_text) == poll = "visible"
\* lines 135-138: `if error_el.is_visible(...)`, then `if error_text:`; an
\* exception of either call is swallowed at lines 139-140
RateLimitedSeen(poll, error_text) ==
  poll = "visible" /\ error_text # "raises" /\ Truthy(error_text)
\* variant: an exception of the visibility check counts as verified
VerifiedSeen_unlessHidden(poll) == poll # "hidden"
\* line 171: `if checkmark.is_visible(timeout=3000)` inside try/except-pass
VerifiedSeen(poll) == poll = "visible"
\* lines 212-214: `except Exception` of _transcribe returns ""
TranscribeFailedText == <<>>

\* label of an attempt's result
OutcomeOf(res) ==
  IF res.success THEN "solved"
  ELSE IF res.error \in {NoAudioUrlResult.error, TranscriptionFailedResult.error,
                         VerificationFailedResult.error}
       THEN res.error
       ELSE "rate limited"

ResetLocals ==
  /\ steps' = <<>>
  /\ rateVisible' = FALSE
  /\ rateText' = "unread"
  /\ text' = NoText
  /\ trFault' = "none"
  /\ filled' = NoText
  /\ attemptResult' = NoResult
  /\ failedStep' = "none"

\* variant: no finally clause, browser.close() is not called
ExitTry_noFinally(newpc, res, at) ==
  /\ pc' = newpc
  /\ result' = res
  /\ raisedAt' = at
  /\ browserOpen' = FALSE
  /\ playwrightUp' = FALSE
  /\ UNCHANGED <<closeCalls, enteredTry>>

\* lines 63, 76-79: leaving the try block of solve, by return or by an
\* exception: the finally clause closes the browser, then the with block of
\* sync_playwright ends
ExitTry(newpc, res, at) ==
  /\ pc' = newpc
  /\ result' = res
  /\ raisedAt' = at
  /\ closeCalls' = closeCalls + 1
  /\ browserOpen' = FALSE
  /\ playwrightUp' = FALSE
  /\ UNCHANGED enteredTry

\* ---------------------------------------------------------------------
\* solve, lines 63-79
\* ---------------------------------------------------------------------
\* lines 63-65: start playwright and launch the browser
Launch ==
  /\ pc = "start"
  /\ \E ok \in BOOLEAN :
       IF ok
       THEN /\ pc' = "launched"
            /\ playwrightUp' = TRUE
            /\ browserOpen' = TRUE
            /\ UNCHANGED raisedAt
       ELSE /\ pc' = "raised"
            /\ raisedAt' = "launch"
            /\ UNCHANGED <<playwrightUp, browserOpen>>
  /\ UNCHANGED <<max_retries, closeCalls, enteredTry, result, freeSeen,
                 checkedSeen, countVars, tokenVars, localVars, tempFiles, pureVars>>

\* lines 67-76: new_context and new_page, then the try block is entered.
\* An exception here is outside the try: browser.close() is not called and
\* the end of the with block stops playwright, which ends its browsers.
NewPage ==
  /\ pc = "launched"
  /\ \E ok \in BOOLEAN :
       IF ok
       THEN /\ pc' = "try"
            /\ enteredTry' = TRUE
            /\ UNCHANGED <<playwrightUp, browserOpen, raisedAt>>
       ELSE /\ pc' = "raised"
            /\ raisedAt' = "new_context"
            /\ playwrightUp' = FALSE
            /\ browserOpen' = FALSE
            /\ UNCHANGED enteredTry
  /\ UNCHANGED <<max_retries, closeCalls, result, freeSeen,
                 checkedSeen, countVars, tokenVars, localVars, tempFiles, pureVars>>

\* ---------------------------------------------------------------------
\* _solve, lines 81-118
\* ---------------------------------------------------------------------
\* a step of _solve before the retry loop: it completes or its exception
\* leaves _solve and solve
Prelude(from, to, name) ==
  /\ pc = from
  /\ \E ok \in BOOLEAN :
       IF ok
       THEN /\ pc' = to
            /\ UNCHANGED browserVars
       ELSE ExitTry("raised", NoResult, name)
  /\ UNCHANGED <<max_retries, freeSeen, checkedSeen, countVars, tokenVars,
                 localVars, tempFiles, pureVars>>

\* line 83
Goto == Prelude("try", "loading", "goto")
\* lines 84-85
WaitLoad == Prelude("loading", "loaded", "wait_for_load_state")
\* lines 88-93
ClickCheckbox == Prelude("loaded", "clicked", "checkbox_click")

\* lines 95-102: the free-pass check
FreePassCheck ==
  /\ pc = "clicked"
  /\ \E poll \in Polls :
       /\ freeSeen' = (poll = "visible")
       /\ pc' = IF FreePassTaken(poll) THEN "free_token" ELSE "loop"
  /\ UNCHANGED <<max_retries, browserVars, checkedSeen, countVars, tokenVars,
                 localVars, tempFiles, pureVars>>

\* lines 216-227: _get_token, called from line 100 or line 173
GetToken ==
  /\ pc \in {"free_token", "a_token"}
  /\ getTokenCalls' = getTokenCalls + 1
  /\ \E v \in TokenValues \cup {"raises"} :
       /\ evalRaised' = (v = "raises")
       /\ tokenResult' = IF v = "raises" THEN TokenUnreadResult ELSE TokenResult(v)
  /\ IF pc = "free_token"
     THEN /\ pc' = "free_return"
          /\ UNCHANGED attemptResult
     ELSE /\ pc' = "a_return"
          /\ attemptResult' = tokenResult'
  /\ UNCHANGED <<max_retries, browserVars, freeSeen, checkedSeen, countVars,
                 steps, rateVisible, rateText, text, trFault, filled, failedStep, tempFiles, pureVars>>

\* line 100 (and 77-79): _solve returns what _get_token returned
FreeReturn ==
  /\ pc = "free_return"
  /\ ExitTry("returned", tokenResult, "none")
  /\ UNCHANGED <<max_retries, freeSeen, checkedSeen, countVars, tokenVars,
                 localVars, tempFiles, pureVars>>

\* lines 105-109: the loop starts another attempt and calls _solve_audio
StartAttempt ==
  /\ pc = "loop"
  /\ RangeHasNext(attempt, max_retries)
  /\ attempt' = attempt + 1
  /\ solveAudioCalls' = solveAudioCalls + 1
  /\ pc' = "a_click"
  /\ UNCHANGED <<max_retries, browserVars, freeSeen, checkedSeen, delays, outcomes,
                 tokenVars, localVars, tempFiles, pureVars>>

\* lines 105, 118: the loop is over
Exhausted ==
  /\ pc = "loop"
  /\ ~RangeHasNext(attempt, max_retries)
  /\ ExitTry("returned", MaxRetriesResult, "none")
  /\ UNCHANGED <<max_retries, freeSeen, checkedSeen, countVars, tokenVars,
                 localVars, tempFiles, pureVars>>

\* lines 109-112, 116 (and 77-79): _solve_audio returned a dict
AttemptReturn ==
  /\ pc = "a_return"
  /\ outcomes' = Append(outcomes, OutcomeOf(attemptResult))
  /\ IF ReturnsEarly(attemptResult)
     THEN /\ ExitTry("returned", attemptResult, "none")
          /\ UNCHANGED delays
     ELSE /\ delays' = delays + 1
          /\ pc' = "loop"
          /\ UNCHANGED browserVars
  /\ ResetLocals
  /\ UNCHANGED <<max_retries, freeSeen, checkedSeen, attempt, solveAudioCalls,
                 tokenVars, tempFiles, pureVars>>

\* variant: no except clause around the attempt, the exception leaves solve
AttemptCatch_escapes ==
  /\ pc = "a_raised"
  /\ pc' = "raised"
  /\ raisedAt' = failedStep
  /\ closeCalls' = closeCalls + 1
  /\ browserOpen' = FALSE
  /\ playwrightUp' = FALSE
  /\ UNCHANGED <<max_retries, enteredTry, result, freeSeen, checkedSeen,
                 countVars, tokenVars, localVars, tempFiles, pureVars>>

\* variant: a caught exception ends the solve with the failure result
AttemptCatch_givesUp ==
  /\ pc = "a_raised"
  /\ outcomes' = Append(outcomes, "exception")
  /\ ExitTry("returned", MaxRetriesResult, "none")
  /\ ResetLocals
  /\ UNCHANGED <<max_retries, freeSeen, checkedSeen, attempt, delays,
                 solveAudioCalls, tokenVars, tempFiles, pureVars>>

\* variant: the except clause skips the sleep
AttemptCatch_noSleep ==
  /\ pc = "a_raised"
  /\ outcomes' = Append(outcomes, "exception")
  /\ pc' = "loop"
  /\ ResetLocals
  /\ UNCHANGED <<max_retries, browserVars, freeSeen, checkedSeen, attempt, delays,
                 solveAudioCalls, tokenVars, tempFiles, pureVars>>

\* lines 113-116: an exception of _solve_audio is caught, then the sleep
AttemptCatch ==
  /\ pc = "a_raised"
  /\ outcomes' = Append(outcomes, "exception")
  /\ delays' = delays + 1
  /\ pc' = "loop"
  /\ ResetLocals
  /\ UNCHANGED <<max_retries, browserVars, freeSeen, checkedSeen, attempt,
                 solveAudioCalls, tokenVars, tempFiles, pureVars>>


\* ---------------------------------------------------------------------
\* _solve_audio, lines 120-177
\* ---------------------------------------------------------------------
audioFrame == <<max_retries, browserVars, freeSeen, countVars, tokenVars,
                pureVars>>

\* the current attempt ends with an exception raised by step `name`
RaiseInAttempt(name) ==
  /\ pc' = "a_raised"
  /\ failedStep' = name

\* lines 123-130: switch to the audio challenge
AudioClick ==
  /\ pc = "a_click"
  /\ steps' = Append(steps, "audio_click")
  /\ \E ok \in BOOLEAN :
       IF ok
       THEN /\ pc' = "a_rate"
            /\ UNCHANGED failedStep
       ELSE RaiseInAttempt("audio_click")
  /\ UNCHANGED <<audioFrame, checkedSeen, rateVisible, rateText, text, trFault, filled,
                 attemptResult, tempFiles>>

\* lines 132-140: the rate-limit check; every exception in it is swallowed
RateCheck ==
  /\ pc = "a_rate"
  /\ steps' = Append(steps, "rate_check")
  /\ \E poll \in Polls, error_text \in ErrorTexts \cup {"raises"} :
       /\ rateVisible' = (poll = "visible")
       /\ rateText' = (IF poll = "visible" THEN error_text ELSE "unread")
       /\ IF RateLimitedSeen(poll, error_text)
          THEN /\ attemptResult' = RateLimitedResult(error_text)
               /\ pc' = "a_return"
          ELSE /\ pc' = "a_url"
               /\ UNCHANGED attemptResult
  /\ UNCHANGED <<audioFrame, checkedSeen, text, trFault, filled, failedStep, tempFiles>>

\* lines 142-149: read the download link
GetUrl ==
  /\ pc = "a_url"
  /\ steps' = Append(steps, "url_read")
  /\ \E audio_url \in Hrefs \cup {"raises"} :
       IF audio_url = "raises"
       THEN /\ RaiseInAttempt("url_read")
            /\ UNCHANGED attemptResult
       ELSE IF ~Truthy(audio_url)
       THEN /\ attemptResult' = NoAudioUrlResult
            /\ pc' = "a_return"
            /\ UNCHANGED failedStep
       ELSE /\ pc' = "t_download"
            /\ UNCHANGED <<attemptResult, failedStep>>
  /\ UNCHANGED <<audioFrame, checkedSeen, rateVisible, rateText, text, trFault, filled, tempFiles>>

\* ---------------------------------------------------------------------
\* _transcribe, lines 179-214 (called at line 152)
\* ---------------------------------------------------------------------
\* variant: no try/except in _transcribe, a failed download raises into the
\* attempt
TrDownload_propagates ==
  /\ pc = "t_download"
  /\ steps' = Append(steps, "transcribe")
  /\ \E ok \in BOOLEAN :
       IF ok
       THEN /\ pc' = "t_tempfile"
            /\ UNCHANGED <<trFault, failedStep>>
       ELSE /\ RaiseInAttempt("transcribe")
            /\ trFault' = "download"
  /\ UNCHANGED <<audioFrame, checkedSeen, rateVisible, rateText, text, filled,
                 attemptResult, tempFiles>>

\* lines 181-184: download; a failure goes to the except clause, lines 212-214
TrDownload ==
  /\ pc = "t_download"
  /\ steps' = Append(steps, "transcribe")
  /\ \E ok \in BOOLEAN :
       IF ok
       THEN /\ pc' = "t_tempfile"
            /\ UNCHANGED <<text, trFault>>
       ELSE /\ pc' = "a_text"
            /\ text' = TranscribeFailedText
            /\ trFault' = "download"
  /\ UNCHANGED <<audioFrame, checkedSeen, rateVisible, rateText, filled, attemptResult,
                 failedStep, tempFiles>>

\* lines 186-191: NamedTemporaryFile(delete=False) and the write
TrTempFile ==
  /\ pc = "t_tempfile"
  /\ \E o \in {"ok", "create_raises", "write_raises"} :
       /\ tempFiles' = IF o = "create_raises" THEN tempFiles ELSE tempFiles + 1
       /\ IF o = "ok"
          THEN /\ pc' = "t_infer"
               /\ UNCHANGED <<text, trFault>>
          ELSE /\ pc' = "a_text"
               /\ text' = TranscribeFailedText
               /\ trFault' = o
  /\ UNCHANGED <<audioFrame, checkedSeen, steps, rateVisible, rateText, filled,
                 attemptResult, failedStep>>

\* lines 193-210: inference, join of the segments, unlink, clean-up
TrInferOk(segments) ==
  /\ tempFiles' = tempFiles - 1
  /\ text' = Normalize(JoinSpace(segments))
  /\ UNCHANGED trFault

\* lines 194-200 raise: straight to the except clause, lines 212-214
TrInferRaises ==
  /\ tempFiles' = tempFiles
  /\ text' = TranscribeFailedText
  /\ trFault' = "inference_raises"

TrInfer ==
  /\ pc = "t_infer"
  /\ \/ \E segments \in InferenceOutputs : TrInferOk(segments)
     \/ TrInferRaises
  /\ pc' = "a_text"
  /\ UNCHANGED <<audioFrame, checkedSeen, steps, rateVisible, rateText, filled,
                 attemptResult, failedStep>>

\* ---------------------------------------------------------------------
\* _solve_audio, continued
\* ---------------------------------------------------------------------
\* lines 152-156: the transcript came back
CheckText ==
  /\ pc = "a_text"
  /\ IF IsEmptyText(text)
     THEN /\ attemptResult' = TranscriptionFailedResult
          /\ pc' = "a_return"
     ELSE /\ pc' = "a_fill"
          /\ UNCHANGED attemptResult
  /\ UNCHANGED <<audioFrame, checkedSeen, steps, rateVisible, rateText, text, trFault, filled,
                 failedStep, tempFiles>>

\* variant: a failure to fill is swallowed and verify is clicked anyway
Fill_swallows ==
  /\ pc = "a_fill"
  /\ steps' = Append(steps, "fill")
  /\ \E ok \in BOOLEAN :
       /\ filled' = (IF ok THEN text ELSE filled)
       /\ pc' = "a_verify"
  /\ UNCHANGED <<audioFrame, checkedSeen, rateVisible, rateText, text, trFault,
                 attemptResult, failedStep, tempFiles>>

\* lines 158-160: fill the answer box
Fill ==
  /\ pc = "a_fill"
  /\ steps' = Append(steps, "fill")
  /\ \E ok \in BOOLEAN :
       IF ok
       THEN /\ filled' = text
            /\ pc' = "a_verify"
            /\ UNCHANGED failedStep
       ELSE /\ RaiseInAttempt("fill")
            /\ UNCHANGED filled
  /\ UNCHANGED <<audioFrame, checkedSeen, rateVisible, rateText, text, trFault, attemptResult,
                 tempFiles>>

\* lines 162-165: click verify
VerifyClick ==
  /\ pc = "a_verify"
  /\ steps' = Append(steps, "verify_click")
  /\ \E ok \in BOOLEAN :
       IF ok
       THEN /\ pc' = "a_check"
            /\ UNCHANGED failedStep
       ELSE RaiseInAttempt("verify_click")
  /\ UNCHANGED <<audioFrame, checkedSeen, rateVisible, rateText, text, trFault, filled,
                 attemptResult, tempFiles>>

\* lines 167-177: did it work; every exception in the check is swallowed
CheckSolved ==
  /\ pc = "a_check"
  /\ steps' = Append(steps, "checked_check")
  /\ \E poll \in Polls :
       /\ checkedSeen' = (checkedSeen \/ poll = "visible")
       /\ IF VerifiedSeen(poll)
          THEN /\ pc' = "a_token"
               /\ UNCHANGED attemptResult
          ELSE /\ attemptResult' = VerificationFailedResult
               /\ pc' = "a_return"
  /\ UNCHANGED <<audioFrame, rateVisible, rateText, text, trFault, filled, failedStep, tempFiles>>

\* ---------------------------------------------------------------------
\* Specification of one solve call
\* ---------------------------------------------------------------------
Next ==
  \/ Launch
  \/ NewPage
  \/ Goto
  \/ WaitLoad
  \/ ClickCheckbox
  \/ FreePassCheck
  \/ GetToken
  \/ FreeReturn
  \/ StartAttempt
  \/ Exhausted
  \/ AttemptReturn
  \/ AttemptCatch
  \/ AudioClick
  \/ RateCheck
  \/ GetUrl
  \/ TrDownload
  \/ TrTempFile
  \/ TrInfer
  \/ CheckText
  \/ Fill
  \/ VerifyClick
  \/ CheckSolved

Spec == Init /\ [][Next]_vars


\* ---------------------------------------------------------------------
\* Specification of the transcript clean-up as a pure function: the input
\* ranges over all strings up to MaxLen, the clean-up is applied once to
\* it and once more to its own output
\* ---------------------------------------------------------------------
InitNorm ==
  /\ pc = "off"
  /\ max_retries = 0
  /\ InitSolveVars
  /\ nIn \in Strings(MaxLen)
  /\ nOut = <<>>
  /\ nOut2 = <<>>
  /\ npc = "input"
  /\ InitKeysIdle

\* lines 205-210 applied to the raw text
NormOnce ==
  /\ npc = "input"
  /\ nOut' = Normalize(nIn)
  /\ npc' = "once"
  /\ UNCHANGED <<solveVars, keyVars, nIn, nOut2>>

\* lines 205-210 applied to an already cleaned text
NormTwice ==
  /\ npc = "once"
  /\ nOut2' = Normalize(nOut)
  /\ npc' = "twice"
  /\ UNCHANGED <<solveVars, keyVars, nIn, nOut>>

NextNorm ==
  \/ NormOnce
  \/ NormTwice

SpecNorm == InitNorm /\ [][NextNorm]_vars


\* ---------------------------------------------------------------------
\* Sitekey finder, src/src/find_sitekey.py.  The regular expressions are
\* represented by what they return: for the page content, the list of keys
\* re.findall gives for the patterns of each category, in order; for a
\* request URL, the key each re.search captures, or None.  The result dict
\* is modelled by its four key lists.
\* ---------------------------------------------------------------------
\* 40-character reCAPTCHA keys and 36-character hCaptcha keys
Keys == {"k1", "k2"}
EnterpriseKeys == {"k1"}
HKeys == {"h1"}

RECURSIVE SeqsUpTo(_, _)
SeqsUpTo(S, n) ==
  IF n = 0 THEN {<<>>}
  ELSE SeqsUpTo(S, n - 1) \cup {Append(q, x) : q \in SeqsUpTo(S, n - 1), x \in S}

Range(q) == {q[i] : i \in 1..Len(q)}

\* the matches found in a page, per category
Contents ==
  [v3 : SeqsUpTo(Keys, MaxMatches), v2 : SeqsUpTo(Keys, MaxMatches),
   enterprise : SeqsUpTo(EnterpriseKeys, MaxMatches),
   hcaptcha : SeqsUpTo(HKeys, MaxMatches)]

\* what on_request can read off a request URL
Requests ==
  [recaptcha : BOOLEAN, render : Keys \cup {None}, k : Keys \cup {None},
   hcaptcha : BOOLEAN, sitekey : HKeys \cup {None}]

\* lines 172-190: append each match that is not yet in the list `acc` nor in
\* the list `other`
RECURSIVE AddMatches(_, _, _)
AddMatches(matches, acc, other) ==
  IF matches = <<>> THEN acc
  ELSE IF Head(matches) \in Range(acc) \/ Head(matches) \in Range(other)
       THEN AddMatches(Tail(matches), acc, other)
       ELSE AddMatches(Tail(matches), Append(acc, Head(matches)), other)

\* lines 161-196: _extract_keys; v3 first, then v2 without the v3 keys
ExtractKeys(content) ==
  LET v3 == AddMatches(content.v3, <<>>, <<>>)
  IN [v3 |-> v3,
      v2 |-> AddMatches(content.v2, <<>>, v3),
      enterprise |-> AddMatches(content.enterprise, <<>>, <<>>),
      hcaptcha |-> AddMatches(content.hcaptcha, <<>>, <<>>)]

\* lines 87-101: the pairs on_request appends for one request
RequestKeys(req) ==
  (IF req.recaptcha /\ req.render # None THEN << <<"v3", req.render>> >> ELSE <<>>)
  \o (IF req.recaptcha /\ req.k # None THEN << <<"v2", req.k>> >> ELSE <<>>)
  \o (IF req.hcaptcha /\ req.sitekey # None
      THEN << <<"hcaptcha", req.sitekey>> >> ELSE <<>>)

\* lines 140-143: add the network keys to the lists of their type
RECURSIVE MergeNetworkKeys(_, _)
MergeNetworkKeys(res, nk) ==
  IF nk = <<>> THEN res
  ELSE LET key_type == Head(nk)[1]
           key == Head(nk)[2]
       IN IF key \in Range(res[key_type])
          THEN MergeNetworkKeys(res, Tail(nk))
          ELSE MergeNetworkKeys([res EXCEPT ![key_type] = Append(@, key)], Tail(nk))

InitKeys ==
  /\ pc = "off"
  /\ max_retries = 0
  /\ InitSolveVars
  /\ InitNormIdle
  /\ kpc = "start"
  /\ network_keys = <<>>
  /\ results = NoKeys

\* lines 42-63: find_static returns _extract_keys of the fetched page
FindStatic ==
  /\ kpc = "start"
  /\ \E content \in Contents : results' = ExtractKeys(content)
  /\ kpc' = "static_done"
  /\ UNCHANGED <<solveVars, normVars, network_keys>>

\* lines 76-110: find_browser registers on_request and loads the page
BrowserLoad ==
  /\ kpc = "start"
  /\ kpc' = "listening"
  /\ UNCHANGED <<solveVars, normVars, network_keys, results>>

\* lines 87-101: on_request, called for a request of the page
OnRequest ==
  /\ kpc = "listening"
  /\ \E req \in Requests :
       /\ Len(network_keys) + Len(RequestKeys(req)) <= MaxNetworkKeys
       /\ network_keys' = network_keys \o RequestKeys(req)
  /\ UNCHANGED <<solveVars, normVars, kpc, results>>

\* lines 117-138: read the content and extract its keys
BrowserExtract ==
  /\ kpc = "listening"
  /\ \E content \in Contents : results' = ExtractKeys(content)
  /\ kpc' = "extracted"
  /\ UNCHANGED <<solveVars, normVars, network_keys>>

\* lines 140-143: the merge loop
BrowserMerge ==
  /\ kpc = "extracted"
  /\ results' = MergeNetworkKeys(results, network_keys)
  /\ kpc' = "merged"
  /\ UNCHANGED <<solveVars, normVars, network_keys>>

NextKeys ==
  \/ FindStatic
  \/ BrowserLoad
  \/ OnRequest
  \/ BrowserExtract
  \/ BrowserMerge

SpecKeys == InitKeys /\ [][NextKeys]_vars

\* =====================================================================
\* Properties
\* =====================================================================
Finished == pc \in {"returned", "raised"}
Last(q) == q[Len(q)]
Retryable == {"rate limited", NoAudioUrlResult.error, TranscriptionFailedResult.error,
              VerificationFailedResult.error, "exception"}

C2_AtMostNInvocations ==
  /\ solveAudioCalls <= (IF max_retries < 0 THEN 0 ELSE max_retries)
  /\ \A i \in 1..Len(outcomes) :
       outcomes[i] = "solved" =>
         /\ i = Len(outcomes)
         /\ solveAudioCalls = i
         /\ pc = "returned"

\* C2 witness: solved on attempt 2 of 3, no third invocation
C2_Witness ==
  /\ pc = "returned"
  /\ max_retries = 3
  /\ Len(outcomes) = 2
  /\ outcomes[2] = "solved"
  /\ solveAudioCalls = 2

\* C3: once the free-pass check has seen the checked state, _solve_audio is
\* never invoked, _get_token runs exactly once, and solve returns the dict
\* _get_token returned.
C3_FreePass ==
  freeSeen =>
    /\ solveAudioCalls = 0
    /\ pc \in {"free_token", "free_return", "returned"}
    /\ getTokenCalls = (IF pc = "free_token" THEN 0 ELSE 1)
    /\ pc = "returned" => result = tokenResult /\ result.success

\* C3 witness: the free pass fired and solve returned the token dict
C3_Witness ==
  /\ freeSeen
  /\ pc = "returned"
  /\ getTokenCalls = 1
  /\ result.token \in TokenValues

\* C4: in an attempt whose transcript is empty, the answer box is not filled
\* and verify is not clicked, the attempt returns the transcription-failed
\* dict, and that is the outcome recorded for the attempt (so it is never
\* verification failed).
C4_EmptyTranscriptNotSubmitted ==
  /\ [](text = <<>> =>
          /\ pc \in {"a_text", "a_return"}
          /\ filled = NoText
          /\ \A i \in 1..Len(steps) : steps[i] \notin {"fill", "verify_click"}
          /\ pc = "a_return" => attemptResult = Failure("transcription failed"))
  /\ [][text = <<>> /\ pc = "a_return" =>
          outcomes' = Append(outcomes, "transcription failed")]_vars

\* C4 witness: the third attempt in a row ends with an empty transcript
C4_Witness ==
  /\ pc = "a_return"
  /\ text = <<>>
  /\ outcomes = <<"transcription failed", "transcription failed">>
  /\ attemptResult.error = "transcription failed"

\* C5: the only error a returned result carries is max retries exceeded, and
\* when no attempt was solved and there was no free pass, solve returns
\* {success: False, error: max retries exceeded} without a token, after
\* max_retries attempts.
C5_OnlyMaxRetriesSurfaces ==
  pc = "returned" =>
    /\ NonNull(result.error) => result.error = "max retries exceeded"
    /\ (~freeSeen /\ \A i \in 1..Len(outcomes) : outcomes[i] # "solved") =>
         /\ result = [success |-> FALSE, token |-> Absent,
                      error |-> "max retries exceeded"]
         /\ Len(outcomes) = (IF max_retries < 0 THEN 0 ELSE max_retries)

\* C5 witness: verification failed on all 3 attempts
C5_Witness ==
  /\ pc = "returned"
  /\ max_retries = 3
  /\ outcomes = <<"verification failed", "verification failed", "verification failed">>
  /\ result.error = "max retries exceeded"

Escaping == {"launch", "new_context", "goto", "wait_for_load_state", "checkbox_click"}

C8_BrowserReleased ==
  /\ closeCalls <= 1
  /\ Finished =>
       /\ ~browserOpen
       /\ ~playwrightUp
       /\ closeCalls = (IF enteredTry THEN 1 ELSE 0)

\* C8 witness: an exception left _solve and the browser was closed
C8_Witness ==
  /\ pc = "raised"
  /\ enteredTry
  /\ raisedAt = "goto"
  /\ closeCalls = 1
  /\ ~browserOpen

\* C9 as stated: whenever _transcribe is not running (it has returned, on
\* any path), no temporary file it created exists.
C9_TempFileReleased ==
  pc \notin {"t_tempfile", "t_infer"} => tempFiles = 0

\* C10 as stated: the clean-up is idempotent, cleaning a cleaned transcript
\* changes nothing.
C10_NormalizeIdempotent ==
  npc = "twice" => nOut2 = nOut


\* characters a cleaned transcript may contain besides the single space
LowerAlnum == {c \in Chars : IsAlnum(c) /\ LowerChar(c) = <<c>>}

\* C11 as stated: the cleaned transcript contains only lowercase
\* alphanumeric characters and single spaces, does not start or end with
\* whitespace and has no two spaces in a row.
C11_CleanTranscriptForm ==
  npc # "input" =>
    /\ \A i \in 1..Len(nOut) : nOut[i] \in LowerAlnum \cup {" "}
    /\ nOut # <<>> => nOut[1] # " " /\ nOut[Len(nOut)] # " "
    /\ \A i \in 1..(Len(nOut) - 1) : ~(nOut[i] = " " /\ nOut[i + 1] = " ")


\* the order in which _solve_audio performs its steps
StepOrder == <<"audio_click", "rate_check", "url_read", "transcribe", "fill",
               "verify_click", "checked_check">>
IsPrefix(q, r) == Len(q) <= Len(r) /\ SubSeq(r, 1, Len(q)) = q
Performed(name) == \E i \in 1..Len(steps) : steps[i] = name
MaxRetriesFailure == [success |-> FALSE, token |-> Absent, error |-> "max retries exceeded"]
Attempts == IF max_retries < 0 THEN 0 ELSE max_retries

\* C12 as stated: in an attempt where the rate-limit message node is visible,
\* the attempt returns rate limited straight after the check, whatever the
\* text of the node: no URL read, no download, no transcription.
C12_VisibleMeansRateLimited ==
  rateVisible =>
    /\ pc = "a_return"
    /\ OutcomeOf(attemptResult) = "rate limited"
    /\ steps = <<"audio_click", "rate_check">>

\* C12 amended: in an attempt where the rate-limit message node is visible
\* and its text content is non-empty, the attempt returns rate limited with
\* that text straight after the check, with no URL read, download or
\* transcription; when the node is visible but its text is empty or None, or
\* reading it raises, the attempt goes on to read the audio URL.
C12_VisibleWithTextMeansRateLimited ==
  rateVisible =>
    IF rateText \notin {None, "", "raises"}
    THEN /\ pc = "a_return"
         /\ attemptResult = Failure("rate limited: " \o rateText)
         /\ steps = <<"audio_click", "rate_check">>
         /\ text = NoText
         /\ trFault = "none"
    ELSE /\ IsPrefix(<<"audio_click", "rate_check">>, steps)
         /\ pc = "a_url" \/ Performed("url_read")

\* C12 witness: a visible message with text ended the attempt
C12_Witness ==
  /\ rateVisible
  /\ rateText = "Try again later"
  /\ pc = "a_return"
  /\ attemptResult.error = "rate limited: Try again later"

\* C13: an exception raised by a step of an attempt is caught at the attempt
\* boundary and recorded as a retryable outcome; the loop then starts the
\* next attempt when one is left, and otherwise solve returns the
\* max-retries failure.
C13_ExceptionIsRetryable ==
  /\ [][pc = "a_raised" =>
          /\ pc' = "loop"
          /\ outcomes' = Append(outcomes, "exception")
          /\ UNCHANGED <<attempt, result, browserOpen>>]_vars
  /\ [][(pc = "loop" /\ outcomes # <<>> /\ Last(outcomes) = "exception") =>
          IF attempt < max_retries
          THEN pc' = "a_click" /\ attempt' = attempt + 1
          ELSE pc' = "returned" /\ result' = MaxRetriesFailure]_vars

\* C13 witness: attempt 1 raised and attempt 2 is running
C13_Witness ==
  /\ pc = "a_click"
  /\ attempt = 2
  /\ outcomes = <<"exception">>

\* C14: solve returns success only if the checked state was seen, by the
\* free-pass check or by the check after a submission; when the check
\* after a submission does not see it (not visible, or the check raises)
\* the attempt returns verification failed.
C14_SuccessOnlyIfChecked ==
  /\ [](attemptResult.success => checkedSeen)
  /\ [](pc = "returned" /\ result.success => freeSeen \/ checkedSeen)
  /\ [][pc = "a_check" /\ ~checkedSeen' =>
          /\ pc' = "a_return"
          /\ attemptResult' = Failure("verification failed")]_vars

\* C14 witness: the check after a submission did not see the checked state
C14_Witness ==
  /\ pc = "a_return"
  /\ Performed("checked_check")
  /\ ~checkedSeen
  /\ attemptResult.error = "verification failed"

C16_TranscribeNeverRaises ==
  /\ [](trFault # "none" =>
          /\ text = <<>>
          /\ failedStep = "none"
          /\ pc \in {"a_text", "a_return"})
  /\ [](pc = "a_return" /\ text = <<>> =>
          attemptResult = Failure("transcription failed"))
  /\ [][(pc \in {"t_download", "t_tempfile", "t_infer"}) =>
          /\ pc' \in {"t_tempfile", "t_infer", "a_text"}
          /\ (pc' = "a_text" => text' # NoText)]_vars

\* C16 witness: inference raised and the attempt returned transcription failed
C16_Witness ==
  /\ trFault = "inference_raises"
  /\ pc = "a_return"
  /\ attemptResult.error = "transcription failed"

\* C17: the steps of an attempt are a prefix of the fixed order, no step
\* follows the end of the attempt, and verify is clicked only after the
\* answer box was filled with the non-empty transcript of that attempt.
C17_StepOrder ==
  /\ [](IsPrefix(steps, StepOrder))
  /\ [](Performed("verify_click") =>
          filled # NoText /\ filled # <<>> /\ filled = text)
  /\ [][(pc \in {"a_return", "a_raised"}) => steps' = <<>>]_vars

\* C17 witness: an attempt went through all seven steps
C17_Witness ==
  /\ steps = StepOrder
  /\ filled = <<"i", " ", "7">>

\* C18: the number of delays taken equals the number of unsuccessful
\* attempts, none follows a solved attempt, and a run in which every
\* attempt fails takes max_retries delays, the last one before returning.
C18_DelayPerFailedAttempt ==
  /\ delays = Cardinality({i \in 1..Len(outcomes) : outcomes[i] # "solved"})
  /\ (pc = "returned" /\ ~freeSeen /\ ~checkedSeen) => delays = Attempts

\* C18 witness: three failed attempts, three delays, then the failure
C18_Witness ==
  /\ pc = "returned"
  /\ max_retries = 3
  /\ delays = 3
  /\ result = MaxRetriesFailure

\* C19: with max_retries <= 0 _solve_audio is never invoked and no delay is
\* taken, and without a free pass solve returns the max-retries failure.
C19_NoAttemptsWithoutRetries ==
  max_retries <= 0 =>
    /\ solveAudioCalls = 0
    /\ delays = 0
    /\ outcomes = <<>>
    /\ (pc = "returned" /\ ~freeSeen) => result = MaxRetriesFailure

\* C19 witness: a negative max_retries, no free pass, the failure is returned
C19_Witness ==
  /\ max_retries < 0
  /\ pc = "returned"
  /\ ~freeSeen
  /\ result = MaxRetriesFailure
  /\ solveAudioCalls = 0


NoDuplicates(q) == \A i, j \in 1..Len(q) : q[i] = q[j] => i = j

\* C20 as stated: in every result of _extract_keys, and in the result of
\* find_browser after the network keys were merged in, no category list
\* holds a key twice and no key is listed under both v2 and v3.
C20_KeysUniqueAndExclusive ==
  kpc \in {"static_done", "extracted", "merged"} =>
    /\ NoDuplicates(results.v2)
    /\ NoDuplicates(results.v3)
    /\ NoDuplicates(results.enterprise)
    /\ NoDuplicates(results.hcaptcha)
    /\ Range(results.v2) \cap Range(results.v3) = {}

====
